---- MODULE Spec2Model ----
(***************************************************************************)
(* Model of drivers/thermal/samsung/isp_cooling.c: the ISP fps table, the  *)
(* get_property translation engine, the cooling-state apply step and the   *)
(* init / register path, as whole calls; and register, unregister and      *)
(* set_cur_state statement by statement, run by several threads.           *)
(*                                                                         *)
(* Integer representation.  An unsigned int is represented by the int that *)
(* has the same 32-bit pattern (so ~0 is -1 and ~1 is -2).  An unsigned    *)
(* long is the record [hi, lo] of its upper and lower 32-bit halves, lo in *)
(* the same representation; its value is hi * 2^32 + lo.                   *)
(***************************************************************************)
EXTENDS Integers, Sequences, FiniteSets, TLC

(* ------------------------------ bounds -------------------------------- *)
\* longest fps table (entries before the END sentinel) that is enumerated
MaxLen == 3
\* largest upper half of an unsigned long argument that is enumerated
MaxHi == 1
\* longest ECT range list that is enumerated
MaxRange == 2
\* number of set_cur_state calls that are recorded
MaxCalls == 2
\* number of cooling devices that can be registered at a time
MaxDevs == 1
\* number of threads that run driver functions side by side
MaxThreads == 2
\* number of isp_cooling_device records the threads have allocated at a time
MaxRecs == 2

(* ----------------------------- constants ------------------------------ *)
EINVAL == 22
ENODEV == 19
ENOMEM == 12
\* ISP_FPS_ENTRY_INVALID is ~0, ISP_FPS_TABLE_END is ~1
ISP_FPS_ENTRY_INVALID == -1
ISP_FPS_TABLE_END == -2
\* the value isp_cooling_get_fps returns on failure
ISP_FPS_INVALID == [hi |-> 0, lo |-> 0]
\* THERMAL_CSTATE_INVALID is -1UL
THERMAL_CSTATE_INVALID == [hi |-> -1, lo |-> -1]

\* a null pointer to an array (a non-null array has at least one element)
NULL == <<>>
GET_LEVEL == "GET_LEVEL"
GET_FPS == "GET_FPS"
GET_MAXL == "GET_MAXL"

\* the fps values that tables and queries are drawn from
FpsVals == {7, 15, 30}

(* ------------------------- integer conversions ------------------------ *)
\* (unsigned long)u for an unsigned int u: zero extension
ULongOfUInt(u) == [hi |-> 0, lo |-> u]
\* (unsigned int)x for an unsigned long x: the low half
UIntOfULong(x) == x.lo
\* (unsigned long)(int)x: truncate to int, then sign-extend
ULongOfInt(n) == [hi |-> IF n < 0 THEN -1 ELSE 0, lo |-> n]
\* a > b on unsigned int
UGt(a, b) == IF (a < 0) = (b < 0) THEN a > b ELSE a < 0
\* x > n for an unsigned long x and a small natural n
ULongGtNat(x, n) == x.hi # 0 \/ x.lo < 0 \/ x.lo > n

(* ------------------------------ fps table ----------------------------- *)
\* one struct isp_fps_table element
Entry(k, f) == [flags |-> 0, driver_data |-> k, fps |-> f]

\* the array a sequence of fps values is stored as: the entries, then END
MkTable(fs) == [k \in 1..(Len(fs) + 1) |->
                  IF k <= Len(fs) THEN Entry(k - 1, fs[k])
                                  ELSE Entry(0, ISP_FPS_TABLE_END)]

RECURSIVE ValidFrom(_, _)
\* isp_fps_for_each_valid_entry: the fps of the entries from position k up
\* to the first END entry, entries marked ISP_FPS_ENTRY_INVALID left out
ValidFrom(table, k) ==
    IF k > Len(table) \/ table[k].fps = ISP_FPS_TABLE_END THEN <<>>
    ELSE IF table[k].fps = ISP_FPS_ENTRY_INVALID THEN ValidFrom(table, k + 1)
    ELSE <<table[k].fps>> \o ValidFrom(table, k + 1)

isp_fps_for_each_valid_entry(table) == ValidFrom(table, 1)

(* ---------------------------- get_property ---------------------------- *)
RECURSIVE CountLoop(_, _, _, _)
\* first loop of get_property: counts the distinct entries and detects the
\* order; returns the locals fps, descend and max_level after the loop
CountLoop(es, fps, descend, max_level) ==
    IF es = <<>> THEN [fps |-> fps, descend |-> descend, max_level |-> max_level]
    ELSE LET pos == Head(es) IN
         IF fps = pos THEN CountLoop(Tail(es), fps, descend, max_level)
         ELSE CountLoop(Tail(es), pos,
                        IF fps # ISP_FPS_ENTRY_INVALID /\ descend = -1
                            THEN (IF UGt(fps, pos) THEN 1 ELSE 0)
                            ELSE descend,
                        max_level + 1)

RECURSIVE ScanLoop_nodup(_, _, _, _, _, _, _)
\* the second loop without the test that skips a duplicate entry
ScanLoop_nodup(es, fps, i, input, level, property, c) ==
    IF es = <<>> THEN [ret |-> -EINVAL, written |-> FALSE, output |-> 0]
    ELSE LET pos == Head(es) IN
         IF property = GET_LEVEL /\ UIntOfULong(input) = pos
                  THEN [ret |-> 0, written |-> TRUE,
                        output |-> IF c.descend # 0 THEN i ELSE c.max_level - i]
         ELSE IF property = GET_FPS /\ level = ULongOfInt(i)
                  THEN [ret |-> 0, written |-> TRUE, output |-> pos]
         ELSE ScanLoop_nodup(Tail(es), pos, i + 1, input, level, property, c)

RECURSIVE ScanLoop(_, _, _, _, _, _, _)
\* second loop of get_property; fps enters with the value the first loop
\* left in it
ScanLoop(es, fps, i, input, level, property, c) ==
    IF es = <<>> THEN [ret |-> -EINVAL, written |-> FALSE, output |-> 0]
    ELSE LET pos == Head(es) IN
         IF fps = pos THEN ScanLoop(Tail(es), fps, i, input, level, property, c)
         ELSE IF property = GET_LEVEL /\ UIntOfULong(input) = pos
                  THEN [ret |-> 0, written |-> TRUE,
                        output |-> IF c.descend # 0 THEN i ELSE c.max_level - i]
         ELSE IF property = GET_FPS /\ level = ULongOfInt(i)
                  THEN [ret |-> 0, written |-> TRUE, output |-> pos]
         ELSE ScanLoop(Tail(es), pos, i + 1, input, level, property, c)

\* get_property without the test for a table with no valid entry
get_property_nocount(table, input, has_output, property) ==
    IF ~has_output THEN [ret |-> -EINVAL, written |-> FALSE, output |-> 0]
    ELSE IF table = NULL THEN [ret |-> -EINVAL, written |-> FALSE, output |-> 0]
    ELSE LET es == isp_fps_for_each_valid_entry(table)
             c0 == CountLoop(es, ISP_FPS_ENTRY_INVALID, -1, 0)
             c == [c0 EXCEPT !.max_level = c0.max_level - 1]
         IN  IF property = GET_MAXL
                 THEN [ret |-> 0, written |-> TRUE, output |-> c.max_level]
             ELSE [ret |-> -EINVAL, written |-> FALSE, output |-> 0]

\* get_property(isp, input, output, property) on the table `table`;
\* has_output says whether the output pointer is non-null.  The result
\* holds the return value, whether *output was written, and what was written.
get_property(table, input, has_output, property) ==
    IF ~has_output THEN [ret |-> -EINVAL, written |-> FALSE, output |-> 0]
    ELSE IF table = NULL THEN [ret |-> -EINVAL, written |-> FALSE, output |-> 0]
    ELSE LET es == isp_fps_for_each_valid_entry(table)
             c0 == CountLoop(es, ISP_FPS_ENTRY_INVALID, -1, 0)
         IN  IF c0.max_level = 0
                 THEN [ret |-> -EINVAL, written |-> FALSE, output |-> 0]
             ELSE LET c == [c0 EXCEPT !.max_level = c0.max_level - 1] IN
                  IF property = GET_MAXL
                      THEN [ret |-> 0, written |-> TRUE, output |-> c.max_level]
                  ELSE ScanLoop(es, c.fps, 0, input,
                                ULongOfInt(UIntOfULong(input)), property, c)

\* isp_cooling_get_level(isp, fps): an unsigned long
isp_cooling_get_level(table, fps) ==
    LET r == get_property(table, ULongOfUInt(fps), TRUE, GET_LEVEL) IN
    IF r.ret # 0 THEN THERMAL_CSTATE_INVALID ELSE ULongOfUInt(r.output)

\* isp_cooling_get_fps(isp, level): an unsigned long
isp_cooling_get_fps(table, level) ==
    LET r == get_property(table, level, TRUE, GET_FPS) IN
    IF r.ret # 0 THEN ISP_FPS_INVALID ELSE ULongOfUInt(r.output)

\* isp_get_max_state(cdev, state): `state` is the caller's variable before
\* the call; the result holds the return value and the variable after it
isp_get_max_state(table, state) ==
    LET r == get_property(table, ULongOfUInt(0), TRUE, GET_MAXL)
        count == IF r.written THEN r.output ELSE 0
    IN  [ret |-> r.ret,
         state |-> IF count > 0 THEN ULongOfUInt(count) ELSE state]

(* -------------------------------- state ------------------------------- *)
VARIABLES
    isp_fps_table,  \* the global table pointer: NULL or the array
    ect,            \* the platform configuration: [block, function, range_list]
    zone,           \* the thermal zone "ISP" as bound to a cooling device:
                    \* [found, insts], insts the trips that have an instance
    np,             \* whether the node "exynos_isp_thermal" exists
    boot,           \* exynos_isp_cooling_init: "pending", "oops" (died in the
                    \* table stores), or the return it left by: "ret_table",
                    \* "ret_node", "ret_register", "ret_ok"
    table_ret,      \* ret of exynos_isp_cooling_init after isp_cooling_table_init
    init_ret,       \* what exynos_isp_cooling_init returned, once it has
    isp_idr,        \* the ids allocated in isp_idr
    isp_dev_count,  \* the registered-device counter
    devs,           \* id -> the isp_cooling_device record and its instances
    notified,       \* deliveries on isp_notifier: [n, last], their number
                    \* and the payload of the latest
    calls,          \* set_cur_state calls made: [n, differing], their number
                    \* and how many asked for a state other than the current
    last,           \* the last callback or query and its result
    thr,            \* thread -> where it is in the function it runs, and
                    \* its locals: [pc, op, h, arg, ret, solo]
    heap,           \* handle -> the isp_cooling_device record kzalloc'ed
                    \* under it, as the threads see it
    cooling_isp_lock, \* the thread holding the mutex, 0 when it is free
    observed        \* what went with the deliveries on isp_notifier:
                    \* [read, solo, changes, wide]

vars == <<isp_fps_table, ect, zone, np, boot, table_ret, init_ret, isp_idr,
          isp_dev_count, devs, notified, calls, last, thr, heap,
          cooling_isp_lock, observed>>

\* the variables that only the interleaved functions use
tvars == <<thr, heap, cooling_isp_lock, observed>>

RECURSIVE SeqsUpTo(_, _)
\* the sequences over S of length at most n
SeqsUpTo(S, n) ==
    IF n = 0 THEN {<<>>}
    ELSE LET R == SeqsUpTo(S, n - 1) IN
         R \cup {Append(q, x) : q \in {r \in R : Len(r) = n - 1}, x \in S}

\* the unsigned long arguments that are enumerated
ULongArgs == [hi : 0..MaxHi, lo : 0..MaxLen]

\* the cooling states the framework asks for
StateArgs == {a \in ULongArgs : a.lo <= 2}

\* last: the operation, its argument, its return value, whether it wrote
\* its output, the output; for set_cur_state the state before the call and
\* the number of deliveries it made
NoOp == [op |-> "none", arg |-> ULongOfUInt(0), ret |-> 0,
         written |-> FALSE, out |-> ULongOfUInt(0), before |-> 0, sent |-> 0]

(* --------------------------- queries (4.1) ---------------------------- *)
\* a caller of the exported isp_cooling_get_level
GetLevel(f) ==
    /\ last' = [NoOp EXCEPT !.op = GET_LEVEL, !.arg = ULongOfUInt(f),
                !.ret = get_property(isp_fps_table, ULongOfUInt(f), TRUE, GET_LEVEL).ret,
                !.written = get_property(isp_fps_table, ULongOfUInt(f), TRUE, GET_LEVEL).written,
                !.out = isp_cooling_get_level(isp_fps_table, f)]
    /\ UNCHANGED <<isp_fps_table, ect, zone, np, boot, table_ret, init_ret, isp_idr,
                   isp_dev_count, devs, notified, calls>>
    /\ UNCHANGED tvars

\* a caller of the exported isp_cooling_get_fps
GetFps(level) ==
    /\ last' = [NoOp EXCEPT !.op = GET_FPS, !.arg = level,
                !.ret = get_property(isp_fps_table, level, TRUE, GET_FPS).ret,
                !.written = get_property(isp_fps_table, level, TRUE, GET_FPS).written,
                !.out = isp_cooling_get_fps(isp_fps_table, level)]
    /\ UNCHANGED <<isp_fps_table, ect, zone, np, boot, table_ret, init_ret, isp_idr,
                   isp_dev_count, devs, notified, calls>>
    /\ UNCHANGED tvars

\* the get_max_state callback, called with *state holding state0
GetMaxState(state0) ==
    /\ last' = [NoOp EXCEPT !.op = GET_MAXL, !.arg = state0,
                !.ret = isp_get_max_state(isp_fps_table, state0).ret,
                !.written = isp_get_max_state(isp_fps_table, state0).state # state0,
                !.out = isp_get_max_state(isp_fps_table, state0).state]
    /\ UNCHANGED <<isp_fps_table, ect, zone, np, boot, table_ret, init_ret, isp_idr,
                   isp_dev_count, devs, notified, calls>>
    /\ UNCHANGED tvars

(* -------------------------- table construction ------------------------ *)
\* kzalloc of n table elements
ZeroArray(n) == [k \in 1..n |-> [flags |-> 0, driver_data |-> 0, fps |-> 0]]

RECURSIVE FillLoop_nodup(_, _, _, _, _)
\* the for loop without the test against last_fps
FillLoop_nodup(table, range_list, i, last_fps, count) ==
    IF i >= Len(range_list)
        THEN [table EXCEPT ![count + 1].fps = ISP_FPS_TABLE_END]
    ELSE FillLoop_nodup([table EXCEPT ![count + 1] = Entry(count, range_list[i + 1])],
                        range_list, i + 1, range_list[i + 1], count + 1)

RECURSIVE FillLoop(_, _, _, _, _)
\* the for loop of isp_cooling_table_init and the store of the sentinel;
\* i and count are the C indexes, the arrays are 1-based
FillLoop(table, range_list, i, last_fps, count) ==
    IF i >= Len(range_list)
        THEN [table EXCEPT ![count + 1].fps = ISP_FPS_TABLE_END]
    ELSE IF last_fps = range_list[i + 1]
        THEN FillLoop(table, range_list, i + 1, last_fps, count)
    ELSE FillLoop([table EXCEPT ![count + 1] = Entry(count, range_list[i + 1])],
                  range_list, i + 1, range_list[i + 1], count + 1)

\* isp_cooling_table_init that reports success when the configuration is
\* missing
isp_cooling_table_init_noerr(table, cfg, alloc_ok, ub) ==
    IF ~cfg.block \/ ~cfg.function THEN [ret |-> 0, table |-> table, oops |-> FALSE]
    ELSE IF ~alloc_ok
        THEN [ret |-> 0, table |-> NULL, oops |-> (ub = "oops")]
    ELSE [ret |-> 0,
          table |-> FillLoop(ZeroArray(Len(cfg.range_list) + 1), cfg.range_list, 0, -1, 0),
          oops |-> FALSE]

\* isp_cooling_table_init() on the configuration cfg.  alloc_ok: kzalloc
\* returned memory.  When it did not, the stores go through a null pointer:
\* ub = "oops" is the fault that kills the caller, ub = "lost" the build in
\* which the stores do nothing.  Result: the return value, the table
\* pointer afterwards and whether the caller died.
isp_cooling_table_init(table, cfg, alloc_ok, ub) ==
    IF ~cfg.block THEN [ret |-> -ENODEV, table |-> table, oops |-> FALSE]
    ELSE IF ~cfg.function THEN [ret |-> -ENODEV, table |-> table, oops |-> FALSE]
    ELSE IF ~alloc_ok
        THEN [ret |-> 0, table |-> NULL, oops |-> (ub = "oops")]
    ELSE [ret |-> 0,
          table |-> FillLoop(ZeroArray(Len(cfg.range_list) + 1), cfg.range_list, 0, -1, 0),
          oops |-> FALSE]

(* ----------------------------- registration --------------------------- *)
RECURSIVE EctLevelLoop_continue(_, _, _, _)
\* the for loop going on to the next trip when a trip has no instance
EctLevelLoop_continue(table, range_list, i, upper) ==
    IF i >= Len(range_list) THEN upper
    ELSE IF i \notin DOMAIN upper
        THEN EctLevelLoop_continue(table, range_list, i + 1, upper)
    ELSE LET max_level == isp_get_max_state(table, ULongOfUInt(0)).state
             level0 == UIntOfULong(isp_cooling_get_level(table, range_list[i + 1]))
             level == IF ULongOfInt(level0) = THERMAL_CSTATE_INVALID
                          THEN UIntOfULong(max_level) ELSE level0
         IN  EctLevelLoop_continue(table, range_list, i + 1,
                                   [upper EXCEPT ![i] = ULongOfInt(level)])

RECURSIVE EctLevelLoop(_, _, _, _)
\* the for loop of parse_ect_cooling_level: upper maps the trips that have
\* a thermal instance to instance->upper
EctLevelLoop(table, range_list, i, upper) ==
    IF i >= Len(range_list) THEN upper
    ELSE IF i \notin DOMAIN upper THEN upper
    ELSE LET max_level == isp_get_max_state(table, ULongOfUInt(0)).state
             level0 == UIntOfULong(isp_cooling_get_level(table, range_list[i + 1]))
             level == IF ULongOfInt(level0) = THERMAL_CSTATE_INVALID
                          THEN UIntOfULong(max_level) ELSE level0
         IN  EctLevelLoop(table, range_list, i + 1,
                          [upper EXCEPT ![i] = ULongOfInt(level)])

\* parse_ect_cooling_level(cdev, "ISP"): foundtz says whether a zone named
\* ISP is bound to the device, upper holds instance->upper of its instances
parse_ect_cooling_level(table, cfg, foundtz, upper) ==
    IF ~foundtz THEN upper
    ELSE IF ~cfg.block THEN upper
    ELSE IF ~cfg.function THEN upper
    ELSE EctLevelLoop(table, cfg.range_list, 0, upper)

\* idr_alloc(idr, NULL, 0, 0, GFP_KERNEL): the lowest free id
idr_alloc(idr) == CHOOSE id \in 0..Cardinality(idr) :
                      id \notin idr /\ \A j \in 0..(id - 1) : j \in idr

\* __isp_cooling_register(np, clip_isp).  in.dev_alloc_ok, in.idr_ok: the
\* two allocations succeeded; in.tcd_ret: 0 or the error of
\* thermal_of_cooling_device_register; z: the zone binding the framework
\* makes.  Result: the error (0: a device handle), the id registry, the
\* counter and the device records afterwards.
isp_cooling_register_(table, cfg, z, idr, count, ds, in) ==
    IF ~in.dev_alloc_ok
        THEN [ret |-> -ENOMEM, idr |-> idr, count |-> count, devs |-> ds]
    ELSE IF ~in.idr_ok
        THEN [ret |-> -EINVAL, idr |-> idr, count |-> count, devs |-> ds]
    ELSE LET id == idr_alloc(idr) IN
         IF in.tcd_ret # 0
             THEN [ret |-> in.tcd_ret, idr |-> (idr \cup {id}) \ {id},
                   count |-> count, devs |-> ds]
         ELSE [ret |-> 0, idr |-> idr \cup {id}, count |-> count + 1,
               devs |-> (id :> [id |-> id, isp_state |-> 0,
                                upper |-> parse_ect_cooling_level(table, cfg, z.found,
                                              [t \in z.insts |-> ULongOfUInt(0)])]) @@ ds]

\* of_isp_cooling_register(np, clip_isp)
of_isp_cooling_register(has_np, table, cfg, z, idr, count, ds, in) ==
    IF ~has_np THEN [ret |-> -EINVAL, idr |-> idr, count |-> count, devs |-> ds]
    ELSE isp_cooling_register_(table, cfg, z, idr, count, ds, in)

\* the outcomes of the allocations of a registration: the device record,
\* the id, the framework's registration
RegInputs ==
    {[dev_alloc_ok |-> FALSE, idr_ok |-> TRUE, tcd_ret |-> 0],
     [dev_alloc_ok |-> TRUE, idr_ok |-> FALSE, tcd_ret |-> 0],
     [dev_alloc_ok |-> TRUE, idr_ok |-> TRUE, tcd_ret |-> -EINVAL],
     [dev_alloc_ok |-> TRUE, idr_ok |-> TRUE, tcd_ret |-> -ENOMEM],
     [dev_alloc_ok |-> TRUE, idr_ok |-> TRUE, tcd_ret |-> 0]}

\* the outcomes of the allocation of the table
AllocInputs ==
    {[alloc_ok |-> TRUE, ub |-> "none"],
     [alloc_ok |-> FALSE, ub |-> "oops"],
     [alloc_ok |-> FALSE, ub |-> "lost"]}

\* exynos_isp_cooling_init()
Boot(a, in) ==
    /\ boot = "pending"
    /\ LET t == isp_cooling_table_init(isp_fps_table, ect, a.alloc_ok, a.ub)
           r == of_isp_cooling_register(TRUE, t.table, ect, zone, isp_idr,
                                        isp_dev_count, devs, in)
       IN  /\ isp_fps_table' = t.table
           /\ IF t.oops
                  THEN /\ boot' = "oops"
                       /\ UNCHANGED <<table_ret, init_ret, isp_idr, isp_dev_count, devs>>
              ELSE /\ table_ret' = t.ret
                   /\ IF t.ret # 0
                          THEN /\ boot' = "ret_table"
                               /\ init_ret' = t.ret
                               /\ UNCHANGED <<isp_idr, isp_dev_count, devs>>
                      ELSE IF ~np
                          THEN /\ boot' = "ret_node"
                               /\ init_ret' = -EINVAL
                               /\ UNCHANGED <<isp_idr, isp_dev_count, devs>>
                      ELSE /\ boot' = IF r.ret # 0 THEN "ret_register" ELSE "ret_ok"
                           /\ init_ret' = IF r.ret # 0 THEN -EINVAL ELSE t.ret
                           /\ isp_idr' = r.idr
                           /\ isp_dev_count' = r.count
                           /\ devs' = r.devs
    /\ UNCHANGED <<ect, zone, np, notified, calls, last>>
    /\ UNCHANGED tvars

\* a caller of the exported isp_cooling_register
Register(in) ==
    /\ Cardinality(isp_idr) < MaxDevs
    /\ LET r == isp_cooling_register_(isp_fps_table, ect, zone, isp_idr,
                                      isp_dev_count, devs, in)
       IN  /\ isp_idr' = r.idr
           /\ isp_dev_count' = r.count
           /\ devs' = r.devs
           /\ last' = [NoOp EXCEPT !.op = "register", !.ret = r.ret]
    /\ UNCHANGED <<isp_fps_table, ect, zone, np, boot, table_ret, init_ret, notified, calls>>
    /\ UNCHANGED tvars

\* isp_cooling_unregister that first takes the device back to state 0,
\* with the notification that goes with it
isp_cooling_unregister_reset(has_cdev, id, idr, count, ds, chain) ==
    IF ~has_cdev THEN [idr |-> idr, count |-> count, devs |-> ds, chain |-> chain]
    ELSE [idr |-> idr \ {ds[id].id},
          count |-> count - 1,
          devs |-> [d \in DOMAIN ds \ {id} |-> ds[d]],
          chain |-> IF ds[id].isp_state = 0 THEN chain
                    ELSE [n |-> chain.n + 1, last |-> ULongOfUInt(0)]]

\* isp_cooling_unregister(cdev): has_cdev says cdev is not a null pointer,
\* id is the device it points to.  Result: the id registry, the counter,
\* the device records and the notifier deliveries afterwards.
isp_cooling_unregister(has_cdev, id, idr, count, ds, chain) ==
    IF ~has_cdev THEN [idr |-> idr, count |-> count, devs |-> ds, chain |-> chain]
    ELSE [idr |-> idr \ {ds[id].id},
          count |-> count - 1,
          devs |-> [d \in DOMAIN ds \ {id} |-> ds[d]],
          chain |-> chain]

\* isp_cooling_unregister(cdev) for the device with the given id
Unregister(id) ==
    /\ id \in DOMAIN devs
    /\ LET r == isp_cooling_unregister(TRUE, id, isp_idr, isp_dev_count, devs, notified)
       IN  /\ isp_dev_count' = r.count
           /\ isp_idr' = r.idr
           /\ devs' = r.devs
           /\ notified' = r.chain
    /\ last' = [NoOp EXCEPT !.op = "unregister", !.arg = ULongOfUInt(id),
                            !.before = devs[id].isp_state]
    /\ UNCHANGED <<isp_fps_table, ect, zone, np, boot, table_ret, init_ret, calls>>
    /\ UNCHANGED tvars

\* isp_cooling_unregister(NULL)
UnregisterNull ==
    /\ LET r == isp_cooling_unregister(FALSE, 0, isp_idr, isp_dev_count, devs, notified)
       IN  /\ isp_dev_count' = r.count
           /\ isp_idr' = r.idr
           /\ devs' = r.devs
           /\ notified' = r.chain
    /\ last' = [NoOp EXCEPT !.op = "unregister_null"]
    /\ UNCHANGED <<isp_fps_table, ect, zone, np, boot, table_ret, init_ret, calls>>
    /\ UNCHANGED tvars

(* ------------------------ cooling controller (4.2) -------------------- *)
\* isp_apply_cooling without the test for an unchanged state
isp_apply_cooling_always(isp_device, cooling_state, chain) ==
    [ret |-> 0,
     dev |-> [isp_device EXCEPT !.isp_state = UIntOfULong(cooling_state)],
     chain |-> [n |-> chain.n + 1, last |-> cooling_state]]

\* isp_apply_cooling(isp_device, cooling_state): the device record and the
\* notifier deliveries afterwards, and the return value
isp_apply_cooling(isp_device, cooling_state, chain) ==
    IF ULongOfUInt(isp_device.isp_state) = cooling_state
        THEN [ret |-> 0, dev |-> isp_device, chain |-> chain]
    ELSE [ret |-> 0,
          dev |-> [isp_device EXCEPT !.isp_state = UIntOfULong(cooling_state)],
          chain |-> [n |-> chain.n + 1, last |-> cooling_state]]

\* the set_cur_state callback on device id
SetCurState(id, state) ==
    /\ id \in DOMAIN devs
    /\ calls.n < MaxCalls
    /\ LET r == isp_apply_cooling(devs[id], state, notified) IN
       /\ devs' = [devs EXCEPT ![id] = r.dev]
       /\ notified' = r.chain
       /\ last' = [op |-> "SET_CUR", arg |-> state, ret |-> r.ret, written |-> FALSE,
                   out |-> ULongOfUInt(r.dev.isp_state),
                   before |-> devs[id].isp_state,
                   sent |-> r.chain.n - notified.n]
    /\ calls' = [n |-> calls.n + 1,
                 differing |-> calls.differing +
                     (IF state # ULongOfUInt(devs[id].isp_state) THEN 1 ELSE 0)]
    /\ UNCHANGED <<isp_fps_table, ect, zone, np, boot, table_ret, init_ret, isp_idr,
                   isp_dev_count>>
    /\ UNCHANGED tvars

\* the get_cur_state callback on device id
GetCurState(id) ==
    /\ id \in DOMAIN devs
    /\ last' = [NoOp EXCEPT !.op = "GET_CUR", !.arg = ULongOfUInt(id),
                                !.written = TRUE,
                                !.out = ULongOfUInt(devs[id].isp_state)]
    /\ UNCHANGED <<isp_fps_table, ect, zone, np, boot, table_ret, init_ret, isp_idr,
                   isp_dev_count, devs, notified, calls>>
    /\ UNCHANGED tvars

(* ------------------ the functions, statement by statement ------------- *)
\* Threads run __isp_cooling_register, isp_cooling_unregister and the
\* set_cur_state callback side by side, one statement (or one critical
\* section entry, body, exit) per step.  An unlocked access to isp_state is
\* one load or one store of an aligned 32-bit word.
Threads == 1..MaxThreads

IdleThread == [pc |-> "idle", op |-> "none", h |-> 0, arg |-> ULongOfUInt(0),
               ret |-> 0, solo |-> FALSE]
NoneObserved == [read |-> ULongOfUInt(0), solo |-> FALSE, changes |-> 0, wide |-> FALSE]

\* a thread that is inside a function when another one starts a function
\* is not running alone any more
Joined(t, rec) ==
    [u \in Threads |-> IF u = t THEN rec ELSE [thr[u] EXCEPT !.solo = FALSE]]
\* the thread goes on to the statement at pc
Goto(t, pc) == [thr EXCEPT ![t].pc = pc]
\* the heap without the record under handle h
Freed(h) == [k \in DOMAIN heap \ {h} |-> heap[k]]

\* a caller enters __isp_cooling_register
r_call(t) ==
    /\ thr[t].pc = "idle"
    /\ Cardinality(DOMAIN heap)
           + Cardinality({u \in Threads : thr[u].pc = "r_kzalloc"}) < MaxRecs
    /\ thr' = Joined(t, [IdleThread EXCEPT !.pc = "r_kzalloc", !.op = "register"])
    /\ UNCHANGED <<heap, cooling_isp_lock, observed, isp_idr, isp_dev_count,
                   notified, calls>>
    /\ UNCHANGED <<isp_fps_table, ect, zone, np, boot, table_ret, init_ret, devs, last>>

\* isp_dev = kzalloc(...): a zeroed record, or NULL and the return of
\* ERR_PTR(-ENOMEM)
r_kzalloc(t, ok) ==
    /\ thr[t].pc = "r_kzalloc"
    /\ IF ok
           THEN LET h == CHOOSE k \in 1..MaxRecs :
                             k \notin DOMAIN heap /\ \A j \in 1..(k - 1) : j \in DOMAIN heap
                IN  /\ heap' = (h :> [id |-> 0, isp_state |-> 0, cool_dev |-> FALSE,
                                      has_id |-> FALSE, handed |-> FALSE,
                                      set_by |-> 0]) @@ heap
                    /\ thr' = [thr EXCEPT ![t].pc = "g_lock", ![t].h = h]
       ELSE /\ thr' = [thr EXCEPT ![t] = IdleThread]
            /\ UNCHANGED heap
    /\ UNCHANGED <<cooling_isp_lock, observed, isp_idr, isp_dev_count, notified, calls>>
    /\ UNCHANGED <<isp_fps_table, ect, zone, np, boot, table_ret, init_ret, devs, last>>

\* get_idr without the mutex
g_lock_nomutex(t) ==
    /\ thr[t].pc = "g_lock"
    /\ cooling_isp_lock' = t
    /\ thr' = Goto(t, "g_alloc")
    /\ UNCHANGED <<heap, observed, isp_idr, isp_dev_count, notified, calls>>
    /\ UNCHANGED <<isp_fps_table, ect, zone, np, boot, table_ret, init_ret, devs, last>>

\* get_idr: mutex_lock(&cooling_isp_lock)
g_lock(t) ==
    /\ thr[t].pc = "g_lock"
    /\ cooling_isp_lock = 0
    /\ cooling_isp_lock' = t
    /\ thr' = Goto(t, "g_alloc")
    /\ UNCHANGED <<heap, observed, isp_idr, isp_dev_count, notified, calls>>
    /\ UNCHANGED <<isp_fps_table, ect, zone, np, boot, table_ret, init_ret, devs, last>>

\* get_idr: ret = idr_alloc(idr, NULL, 0, 0, GFP_KERNEL), an id or an error
g_alloc(t, ok) ==
    /\ thr[t].pc = "g_alloc"
    /\ IF ok
           THEN /\ isp_idr' = isp_idr \cup {idr_alloc(isp_idr)}
                /\ thr' = [thr EXCEPT ![t].pc = "g_unlock", ![t].ret = idr_alloc(isp_idr)]
       ELSE /\ thr' = [thr EXCEPT ![t].pc = "g_unlock", ![t].ret = -ENOMEM]
            /\ UNCHANGED isp_idr
    /\ UNCHANGED <<heap, cooling_isp_lock, observed, isp_dev_count, notified, calls>>
    /\ UNCHANGED <<isp_fps_table, ect, zone, np, boot, table_ret, init_ret, devs, last>>

\* get_idr: mutex_unlock, then *id = ret or the return of the error, on
\* which __isp_cooling_register goes to kfree and returns ERR_PTR(-EINVAL)
g_unlock(t) ==
    /\ thr[t].pc = "g_unlock"
    /\ cooling_isp_lock' = 0
    /\ IF thr[t].ret < 0
           THEN /\ thr' = Goto(t, "kfree")
                /\ UNCHANGED heap
       ELSE /\ heap' = [heap EXCEPT ![thr[t].h].id = thr[t].ret,
                                    ![thr[t].h].has_id = TRUE]
            /\ thr' = [thr EXCEPT ![t].pc = "r_tcd", ![t].ret = 0]
    /\ UNCHANGED <<observed, isp_idr, isp_dev_count, notified, calls>>
    /\ UNCHANGED <<isp_fps_table, ect, zone, np, boot, table_ret, init_ret, devs, last>>

\* cool_dev = thermal_of_cooling_device_register(...): from here on the
\* framework calls the callbacks of the device; then
\* parse_ect_cooling_level, which writes to the thermal instances only.
\* On an error the id is released.
r_tcd(t, ok) ==
    /\ thr[t].pc = "r_tcd"
    /\ IF ok
           THEN /\ heap' = [heap EXCEPT ![thr[t].h].cool_dev = TRUE]
                /\ thr' = Goto(t, "r_init")
       ELSE /\ thr' = Goto(t, "rl_lock")
            /\ UNCHANGED heap
    /\ UNCHANGED <<cooling_isp_lock, observed, isp_idr, isp_dev_count, notified, calls>>
    /\ UNCHANGED <<isp_fps_table, ect, zone, np, boot, table_ret, init_ret, devs, last>>

\* isp_dev->cool_dev = cool_dev; isp_dev->isp_state = 0;
r_init(t) ==
    /\ thr[t].pc = "r_init"
    /\ heap' = [heap EXCEPT ![thr[t].h].isp_state = 0]
    /\ thr' = Goto(t, "r_count_lock")
    /\ UNCHANGED <<cooling_isp_lock, observed, isp_idr, isp_dev_count, notified, calls>>
    /\ UNCHANGED <<isp_fps_table, ect, zone, np, boot, table_ret, init_ret, devs, last>>

\* mutex_lock(&cooling_isp_lock); isp_dev_count++;
r_count_lock(t) ==
    /\ thr[t].pc = "r_count_lock"
    /\ cooling_isp_lock = 0
    /\ cooling_isp_lock' = t
    /\ isp_dev_count' = isp_dev_count + 1
    /\ thr' = Goto(t, "r_count_unlock")
    /\ UNCHANGED <<heap, observed, isp_idr, notified, calls>>
    /\ UNCHANGED <<isp_fps_table, ect, zone, np, boot, table_ret, init_ret, devs, last>>

\* mutex_unlock(&cooling_isp_lock); return cool_dev;
r_count_unlock(t) ==
    /\ thr[t].pc = "r_count_unlock"
    /\ cooling_isp_lock' = 0
    /\ heap' = [heap EXCEPT ![thr[t].h].handed = TRUE]
    /\ thr' = [thr EXCEPT ![t] = IdleThread]
    /\ UNCHANGED <<observed, isp_idr, isp_dev_count, notified, calls>>
    /\ UNCHANGED <<isp_fps_table, ect, zone, np, boot, table_ret, init_ret, devs, last>>

\* a caller enters isp_cooling_unregister with the handle a registration
\* returned; a handle is given up once
u_call(t, h) ==
    /\ thr[t].pc = "idle"
    /\ h \in DOMAIN heap
    /\ heap[h].handed
    /\ heap' = [heap EXCEPT ![h].handed = FALSE]
    /\ thr' = Joined(t, [IdleThread EXCEPT !.pc = "u_count_lock",
                                           !.op = "unregister", !.h = h])
    /\ UNCHANGED <<cooling_isp_lock, observed, isp_idr, isp_dev_count, notified, calls>>
    /\ UNCHANGED <<isp_fps_table, ect, zone, np, boot, table_ret, init_ret, devs, last>>

\* mutex_lock(&cooling_isp_lock); isp_dev_count--;
u_count_lock(t) ==
    /\ thr[t].pc = "u_count_lock"
    /\ cooling_isp_lock = 0
    /\ cooling_isp_lock' = t
    /\ isp_dev_count' = isp_dev_count - 1
    /\ thr' = Goto(t, "u_count_unlock")
    /\ UNCHANGED <<heap, observed, isp_idr, notified, calls>>
    /\ UNCHANGED <<isp_fps_table, ect, zone, np, boot, table_ret, init_ret, devs, last>>

\* mutex_unlock(&cooling_isp_lock);
u_count_unlock(t) ==
    /\ thr[t].pc = "u_count_unlock"
    /\ cooling_isp_lock' = 0
    /\ thr' = Goto(t, "u_tcd")
    /\ UNCHANGED <<heap, observed, isp_idr, isp_dev_count, notified, calls>>
    /\ UNCHANGED <<isp_fps_table, ect, zone, np, boot, table_ret, init_ret, devs, last>>

\* thermal_cooling_device_unregister(isp_dev->cool_dev)
u_tcd(t) ==
    /\ thr[t].pc = "u_tcd"
    /\ heap' = [heap EXCEPT ![thr[t].h].cool_dev = FALSE]
    /\ thr' = Goto(t, "rl_lock")
    /\ UNCHANGED <<cooling_isp_lock, observed, isp_idr, isp_dev_count, notified, calls>>
    /\ UNCHANGED <<isp_fps_table, ect, zone, np, boot, table_ret, init_ret, devs, last>>

\* release_idr: mutex_lock(&cooling_isp_lock)
rl_lock(t) ==
    /\ thr[t].pc = "rl_lock"
    /\ cooling_isp_lock = 0
    /\ cooling_isp_lock' = t
    /\ thr' = Goto(t, "rl_remove")
    /\ UNCHANGED <<heap, observed, isp_idr, isp_dev_count, notified, calls>>
    /\ UNCHANGED <<isp_fps_table, ect, zone, np, boot, table_ret, init_ret, devs, last>>

\* release_idr: idr_remove(idr, id)
rl_remove(t) ==
    /\ thr[t].pc = "rl_remove"
    /\ isp_idr' = isp_idr \ {heap[thr[t].h].id}
    /\ heap' = [heap EXCEPT ![thr[t].h].has_id = FALSE]
    /\ thr' = Goto(t, "rl_unlock")
    /\ UNCHANGED <<cooling_isp_lock, observed, isp_dev_count, notified, calls>>
    /\ UNCHANGED <<isp_fps_table, ect, zone, np, boot, table_ret, init_ret, devs, last>>

\* release_idr: mutex_unlock(&cooling_isp_lock)
rl_unlock(t) ==
    /\ thr[t].pc = "rl_unlock"
    /\ cooling_isp_lock' = 0
    /\ thr' = Goto(t, "kfree")
    /\ UNCHANGED <<heap, observed, isp_idr, isp_dev_count, notified, calls>>
    /\ UNCHANGED <<isp_fps_table, ect, zone, np, boot, table_ret, init_ret, devs, last>>

\* kfree(isp_dev) and the return, of a failed registration or of
\* isp_cooling_unregister
kfree(t) ==
    /\ thr[t].pc = "kfree"
    /\ heap' = Freed(thr[t].h)
    /\ thr' = [thr EXCEPT ![t] = IdleThread]
    /\ UNCHANGED <<cooling_isp_lock, observed, isp_idr, isp_dev_count, notified, calls>>
    /\ UNCHANGED <<isp_fps_table, ect, zone, np, boot, table_ret, init_ret, devs, last>>

\* the framework calls set_cur_state(cdev, state) on a device it has
s_call(t, h, state) ==
    /\ thr[t].pc = "idle"
    /\ h \in DOMAIN heap
    /\ heap[h].cool_dev
    /\ calls.n < MaxCalls
    /\ calls' = [calls EXCEPT !.n = calls.n + 1]
    /\ thr' = Joined(t, [IdleThread EXCEPT !.pc = "s_test", !.op = "set_cur_state",
                             !.h = h, !.arg = state,
                             !.solo = \A u \in Threads \ {t} : thr[u].pc = "idle"])
    /\ observed' = [observed EXCEPT !.wide = observed.wide \/ state.hi # 0]
    /\ UNCHANGED <<heap, cooling_isp_lock, isp_idr, isp_dev_count, notified>>
    /\ UNCHANGED <<isp_fps_table, ect, zone, np, boot, table_ret, init_ret, devs, last>>

\* isp_apply_cooling: if (isp_device->isp_state == cooling_state) return 0;
s_test(t) ==
    /\ thr[t].pc = "s_test"
    /\ thr' = IF ULongOfUInt(heap[thr[t].h].isp_state) = thr[t].arg
                  THEN [thr EXCEPT ![t] = IdleThread]
                  ELSE Goto(t, "s_store")
    /\ UNCHANGED <<heap, cooling_isp_lock, observed, isp_idr, isp_dev_count,
                   notified, calls>>
    /\ UNCHANGED <<isp_fps_table, ect, zone, np, boot, table_ret, init_ret, devs, last>>

\* isp_apply_cooling: isp_device->isp_state = (unsigned int)cooling_state;
s_store(t) ==
    /\ thr[t].pc = "s_store"
    /\ heap' = [heap EXCEPT ![thr[t].h].isp_state = UIntOfULong(thr[t].arg),
                            ![thr[t].h].set_by = UIntOfULong(thr[t].arg)]
    /\ observed' = [observed EXCEPT !.changes = observed.changes +
                       (IF heap[thr[t].h].isp_state # UIntOfULong(thr[t].arg)
                            THEN 1 ELSE 0)]
    /\ thr' = Goto(t, "s_notify")
    /\ UNCHANGED <<cooling_isp_lock, isp_idr, isp_dev_count, notified, calls>>
    /\ UNCHANGED <<isp_fps_table, ect, zone, np, boot, table_ret, init_ret, devs, last>>

\* isp_apply_cooling: blocking_notifier_call_chain(&isp_notifier,
\* ISP_THROTTLING, &cooling_state); return 0.  The observers run inside the
\* call; observed.read is what get_cur_state gives them.
s_notify(t) ==
    /\ thr[t].pc = "s_notify"
    /\ notified' = [n |-> notified.n + 1, last |-> thr[t].arg]
    /\ observed' = [observed EXCEPT !.read = ULongOfUInt(heap[thr[t].h].isp_state),
                                    !.solo = thr[t].solo]
    /\ thr' = [thr EXCEPT ![t] = IdleThread]
    /\ UNCHANGED <<heap, cooling_isp_lock, isp_idr, isp_dev_count, calls>>
    /\ UNCHANGED <<isp_fps_table, ect, zone, np, boot, table_ret, init_ret, devs, last>>

(* ------------------------------ the driver ---------------------------- *)
\* the max_frequency values the ECT range lists are drawn from
RangeVals == {15, 30}

Configs ==
    {[block |-> FALSE, function |-> FALSE, range_list |-> <<>>],
     [block |-> TRUE, function |-> FALSE, range_list |-> <<>>]}
    \cup {[block |-> TRUE, function |-> TRUE, range_list |-> rl] :
              rl \in SeqsUpTo(RangeVals, MaxRange)}

\* the bindings of the zone "ISP": absent, or bound with instances on
\* some of the trips
Zones ==
    {[found |-> FALSE, insts |-> {}]}
    \cup {[found |-> TRUE, insts |-> I] : I \in SUBSET (0..(MaxRange - 1))}

NoDelivery == [n |-> 0, last |-> ULongOfUInt(0)]
NoCall == [n |-> 0, differing |-> 0]

Init ==
    /\ isp_fps_table = NULL
    /\ ect \in Configs
    /\ zone \in Zones
    /\ np \in BOOLEAN
    /\ boot = "pending"
    /\ table_ret = 0
    /\ init_ret = 0
    /\ isp_idr = {}
    /\ isp_dev_count = 0
    /\ devs = <<>>
    /\ notified = NoDelivery
    /\ calls = NoCall
    /\ last = NoOp
    /\ thr = [t \in Threads |-> IdleThread]
    /\ heap = <<>>
    /\ cooling_isp_lock = 0
    /\ observed = NoneObserved

Next ==
    \/ \E a \in AllocInputs, in \in RegInputs : Boot(a, in)
    \/ \E in \in RegInputs : Register(in)
    \/ \E id \in DOMAIN devs : Unregister(id)
    \/ UnregisterNull
    \/ \E id \in DOMAIN devs, state \in StateArgs : SetCurState(id, state)
    \/ \E id \in DOMAIN devs : GetCurState(id)

Spec == Init /\ [][Next]_vars

(* ------------- the driver on one platform configuration -------------- *)
InitCtl ==
    /\ Init
    /\ ect = [block |-> TRUE, function |-> TRUE, range_list |-> <<30, 15>>]
    /\ zone = [found |-> TRUE, insts |-> {0}]

SpecCtl == InitCtl /\ [][Next]_vars

(* ------------------ registration on every configuration -------------- *)
NextReg ==
    \/ \E a \in AllocInputs, in \in RegInputs : Boot(a, in)
    \/ \E in \in RegInputs : Register(in)
    \/ \E id \in DOMAIN devs : Unregister(id)

SpecReg == Init /\ [][NextReg]_vars

(* --------------- register and unregister side by side ---------------- *)
InitThreads ==
    /\ InitCtl
    /\ np = TRUE

NextIds ==
    \/ \E t \in Threads : r_call(t)
    \/ \E t \in Threads, ok \in BOOLEAN : r_kzalloc(t, ok)
    \/ \E t \in Threads : g_lock(t)
    \/ \E t \in Threads, ok \in BOOLEAN : g_alloc(t, ok)
    \/ \E t \in Threads : g_unlock(t)
    \/ \E t \in Threads, ok \in BOOLEAN : r_tcd(t, ok)
    \/ \E t \in Threads : r_init(t)
    \/ \E t \in Threads : r_count_lock(t)
    \/ \E t \in Threads : r_count_unlock(t)
    \/ \E t \in Threads, h \in DOMAIN heap : u_call(t, h)
    \/ \E t \in Threads : u_count_lock(t)
    \/ \E t \in Threads : u_count_unlock(t)
    \/ \E t \in Threads : u_tcd(t)
    \/ \E t \in Threads : rl_lock(t)
    \/ \E t \in Threads : rl_remove(t)
    \/ \E t \in Threads : rl_unlock(t)
    \/ \E t \in Threads : kfree(t)

SpecIds == InitThreads /\ [][NextIds]_vars

(* ----------- set_cur_state while and after one registration ---------- *)
\* no record has been allocated and no registration is under way
NoDevice == heap = <<>> /\ \A u \in Threads : thr[u].op # "register"

NextRace ==
    \/ \E t \in Threads : NoDevice /\ r_call(t)
    \/ \E t \in Threads, ok \in BOOLEAN : r_kzalloc(t, ok)
    \/ \E t \in Threads : g_lock(t)
    \/ \E t \in Threads, ok \in BOOLEAN : g_alloc(t, ok)
    \/ \E t \in Threads : g_unlock(t)
    \/ \E t \in Threads, ok \in BOOLEAN : r_tcd(t, ok)
    \/ \E t \in Threads : r_init(t)
    \/ \E t \in Threads : r_count_lock(t)
    \/ \E t \in Threads : r_count_unlock(t)
    \/ \E t \in Threads : rl_lock(t)
    \/ \E t \in Threads : rl_remove(t)
    \/ \E t \in Threads : rl_unlock(t)
    \/ \E t \in Threads : kfree(t)
    \/ \E t \in Threads, h \in DOMAIN heap, state \in StateArgs : s_call(t, h, state)
    \/ \E t \in Threads : s_test(t)
    \/ \E t \in Threads : s_store(t)
    \/ \E t \in Threads : s_notify(t)

SpecRace == InitThreads /\ [][NextRace]_vars

(* ------------------- init followed by table queries ------------------ *)
NextBoot ==
    \/ \E a \in AllocInputs, in \in RegInputs : Boot(a, in)
    \/ \E f \in FpsVals \cup {0} : GetLevel(f)
    \/ \E level \in ULongArgs : GetFps(level)
    \/ \E state0 \in {ULongOfUInt(0), ULongOfUInt(5)} : GetMaxState(state0)

SpecBoot == Init /\ [][NextBoot]_vars

(* ------------- the translation engine on an arbitrary table ----------- *)
Tables == {NULL} \cup {MkTable(fs) : fs \in SeqsUpTo(FpsVals, MaxLen)}

InitTable ==
    /\ isp_fps_table \in Tables
    /\ ect = [block |-> FALSE, function |-> FALSE, range_list |-> <<>>]
    /\ zone = [found |-> FALSE, insts |-> {}]
    /\ np = FALSE
    /\ boot = "pending"
    /\ table_ret = 0
    /\ init_ret = 0
    /\ isp_idr = {}
    /\ isp_dev_count = 0
    /\ devs = <<>>
    /\ notified = NoDelivery
    /\ calls = NoCall
    /\ last = NoOp
    /\ thr = [t \in Threads |-> IdleThread]
    /\ heap = <<>>
    /\ cooling_isp_lock = 0
    /\ observed = NoneObserved

NextTable ==
    \/ \E f \in FpsVals \cup {0} : GetLevel(f)
    \/ \E level \in ULongArgs : GetFps(level)
    \/ \E state0 \in {ULongOfUInt(0), ULongOfUInt(5)} : GetMaxState(state0)

SpecTable == InitTable /\ [][NextTable]_vars

(* ===================== properties of the translation ================== *)
\* position of the END sentinel of a non-null table
EndPos(t) == CHOOSE k \in 1..Len(t) :
                 t[k].fps = ISP_FPS_TABLE_END /\ \A j \in 1..(k - 1) : t[j].fps # ISP_FPS_TABLE_END
\* the fps values stored in front of the sentinel
EntriesOf(t) == [k \in 1..(EndPos(t) - 1) |-> t[k].fps]

RECURSIVE Collapse(_)
\* a sequence with every run of equal neighbours reduced to one element
Collapse(fs) ==
    IF fs = <<>> THEN <<>>
    ELSE IF Len(fs) >= 2 /\ fs[1] = fs[2] THEN Collapse(Tail(fs))
    ELSE <<Head(fs)>> \o Collapse(Tail(fs))

DistinctOf(t) == Collapse(EntriesOf(t))
Descending(d) == \A k \in 1..(Len(d) - 1) : d[k] > d[k + 1]
Ascending(d) == \A k \in 1..(Len(d) - 1) : d[k] < d[k + 1]
NonEmpty(t) == t # NULL /\ DistinctOf(t) # <<>>
Monotonic(t) == NonEmpty(t) /\ (Descending(DistinctOf(t)) \/ Ascending(DistinctOf(t)))
MaxLevelOf(t) == Len(DistinctOf(t)) - 1
\* the argument is a level in [0, maxLevel]
IsLevel(t, x) == x.hi = 0 /\ x.lo >= 0 /\ x.lo <= MaxLevelOf(t)
\* positions of the distinct entries holding fps f
PositionsOf(t, f) == {k \in 0..MaxLevelOf(t) : DistinctOf(t)[k + 1] = f}

\* C1: on a non-empty strictly monotonic table (ascending, descending or a
\* single distinct value), levelToFps(L) succeeds for every level L in
\* [0, maxLevel] and fpsToLevel(levelToFps(L)) = L.
C1_RoundTrip ==
    (last.op = GET_FPS /\ Monotonic(isp_fps_table) /\ IsLevel(isp_fps_table, last.arg))
        => /\ last.ret = 0
           /\ isp_cooling_get_level(isp_fps_table, UIntOfULong(last.out)) = last.arg

\* C3: on a strictly monotonic table, L1 < L2 <= maxLevel implies
\* levelToFps(L1) > levelToFps(L2): level 0 is the highest fps.
C3_LevelZeroLeastThrottled ==
    (last.op = GET_FPS /\ Monotonic(isp_fps_table) /\ IsLevel(isp_fps_table, last.arg))
        => \A L2 \in (last.arg.lo + 1)..MaxLevelOf(isp_fps_table) :
              /\ last.ret = 0
              /\ get_property(isp_fps_table, ULongOfUInt(L2), TRUE, GET_FPS).ret = 0
              /\ UGt(UIntOfULong(last.out),
                     get_property(isp_fps_table, ULongOfUInt(L2), TRUE, GET_FPS).output)

\* C4: on a non-empty strictly monotonic table, fpsToLevel(f) for an fps at
\* distinct position i succeeds with i (descending, or one distinct value)
\* or maxLevel - i (ascending); it fails with -EINVAL exactly when f matches
\* no entry.
C4_FpsToLevelDirection ==
    (last.op = GET_LEVEL /\ Monotonic(isp_fps_table))
        => LET d == DistinctOf(isp_fps_table)
               P == PositionsOf(isp_fps_table, UIntOfULong(last.arg))
           IN  /\ (P = {}) <=> (last.ret = -EINVAL)
               /\ \A i \in P :
                     /\ last.ret = 0
                     /\ last.out = ULongOfUInt(IF Descending(d) THEN i
                                               ELSE MaxLevelOf(isp_fps_table) - i)

\* C5: on every non-empty table, levelToFps(L) for L in [0, maxLevel]
\* succeeds and returns the fps of the L-th distinct entry in table order.
C5_LevelToFpsPositional ==
    (last.op = GET_FPS /\ NonEmpty(isp_fps_table) /\ IsLevel(isp_fps_table, last.arg))
        => /\ last.ret = 0
           /\ last.out = ULongOfUInt(DistinctOf(isp_fps_table)[last.arg.lo + 1])

\* C6: with the table pointer absent or the table holding only the END
\* sentinel, getMaxLevel, fpsToLevel and levelToFps fail with -EINVAL for
\* every argument and write nothing to the caller's output; the wrappers
\* return THERMAL_CSTATE_INVALID and ISP_FPS_INVALID.
C6_EmptyOrAbsentTable ==
    (last.op # "none" /\ ~NonEmpty(isp_fps_table))
        => /\ last.ret = -EINVAL
           /\ ~last.written
           /\ last.op = GET_LEVEL => last.out = THERMAL_CSTATE_INVALID
           /\ last.op = GET_FPS => last.out = ISP_FPS_INVALID
           /\ last.op = GET_MAXL => last.out = last.arg

C6_Witness ==
    /\ isp_fps_table = MkTable(<<>>)
    /\ last.op = GET_FPS
    /\ last.ret = -EINVAL

\* C7: on a non-empty table, levelToFps(level) fails with -EINVAL and
\* returns no fps for every unsigned long level > maxLevel, also for those
\* whose low 32 bits are <= maxLevel.
C7_OutOfRangeLevel ==
    (last.op = GET_FPS /\ NonEmpty(isp_fps_table)
        /\ ULongGtNat(last.arg, MaxLevelOf(isp_fps_table)))
        => /\ last.ret = -EINVAL
           /\ ~last.written
           /\ last.out = ISP_FPS_INVALID

\* the table with every run of consecutive equal fps values collapsed
Collapsed(t) == MkTable(DistinctOf(t))

\* C8: a table with runs of consecutive equal fps values and the table with
\* each run collapsed to one entry give the same result (value or error)
\* to getMaxLevel, fpsToLevel(f) and levelToFps(L).
C8_DuplicatesDeterminism ==
    (last.op # "none" /\ isp_fps_table # NULL)
        => LET t == Collapsed(isp_fps_table) IN
           /\ last.op = GET_LEVEL =>
                 /\ last.ret = get_property(t, last.arg, TRUE, GET_LEVEL).ret
                 /\ last.out = isp_cooling_get_level(t, UIntOfULong(last.arg))
           /\ last.op = GET_FPS =>
                 /\ last.ret = get_property(t, last.arg, TRUE, GET_FPS).ret
                 /\ last.out = isp_cooling_get_fps(t, last.arg)
           /\ last.op = GET_MAXL =>
                 /\ last.ret = isp_get_max_state(t, last.arg).ret
                 /\ last.out = isp_get_max_state(t, last.arg).state

C8_Witness ==
    /\ isp_fps_table = MkTable(<<30, 30, 15>>)
    /\ last.op = GET_FPS
    /\ last.arg = ULongOfUInt(1)
    /\ last.out = ULongOfUInt(15)

(* ======================= properties of the driver ===================== *)
\* C2: a set_cur_state call whose argument equals the current state
\* delivers nothing and leaves the state unchanged; a call whose argument
\* differs delivers exactly one notification carrying the argument; so the
\* number of deliveries is the number of calls whose argument differed.
C2_IdempotentApply ==
    /\ last.op = "SET_CUR" =>
          /\ last.ret = 0
          /\ last.arg = ULongOfUInt(last.before) =>
                 (last.sent = 0 /\ last.out = ULongOfUInt(last.before))
          /\ last.arg # ULongOfUInt(last.before) =>
                 (last.sent = 1 /\ notified.last = last.arg)
    /\ notified.n = calls.differing

C2_Witness ==
    /\ calls = [n |-> 2, differing |-> 1]
    /\ last.op = "SET_CUR"
    /\ last.arg = ULongOfUInt(1) /\ last.before = 1 /\ last.sent = 0
    /\ notified = [n |-> 1, last |-> ULongOfUInt(1)]

\* the configuration lacks the block or the "ISP" function
ConfigMissing == ~ect.block \/ ~ect.function
\* init ran with the configuration present and the table allocation failed
AllocFailed == boot # "pending" /\ ~ConfigMissing /\ isp_fps_table = NULL

\* C9: when the allocation of the table fails, table construction returns
\* -ENOMEM without a store to the table and init reports failure.
C9_AllocFailureReported ==
    AllocFailed => (boot = "ret_table" /\ table_ret = -ENOMEM /\ init_ret # 0)

\* a table query was made and failed with -EINVAL, nothing written
QueryFailed ==
    /\ last.ret = -EINVAL
    /\ ~last.written
    /\ last.op = GET_LEVEL => last.out = THERMAL_CSTATE_INVALID
    /\ last.op = GET_FPS => last.out = ISP_FPS_INVALID
    /\ last.op = GET_MAXL => last.out = last.arg

\* C10 as claimed: with the block or the "ISP" function absent, table
\* construction fails with -ENODEV, init goes on past it to register the
\* cooling device, and the queries fail with -EINVAL.
C10_MissingConfigStillRegisters ==
    (boot # "pending" /\ ConfigMissing)
        => /\ table_ret = -ENODEV
           /\ boot \in {"ret_node", "ret_register", "ret_ok"}
           /\ last.op # "none" => QueryFailed

\* C10 amended: with the block or the "ISP" function absent, table
\* construction fails with -ENODEV, init returns that error at once and
\* registers nothing, the table stays absent and the queries fail with
\* -EINVAL.
C10_MissingConfigAbortsInit ==
    (boot # "pending" /\ ConfigMissing)
        => /\ table_ret = -ENODEV
           /\ boot = "ret_table"
           /\ init_ret = -ENODEV
           /\ isp_fps_table = NULL
           /\ isp_idr = {} /\ isp_dev_count = 0 /\ devs = <<>>
           /\ last.op # "none" => QueryFailed

C10_Witness ==
    /\ boot = "ret_table"
    /\ ect.block /\ ~ect.function
    /\ init_ret = -ENODEV
    /\ last.op = GET_LEVEL
    /\ last.out = THERMAL_CSTATE_INVALID

(* ========================= callbacks and lifecycle ==================== *)
\* C14: on every non-empty table, also one with a single distinct fps
\* value, the get_max_state callback returns 0 and stores the number of
\* distinct values minus one through state; whenever it returns 0 the
\* caller's variable holds that value, whatever it held before the call.
C14_GetMaxStateWrites ==
    (last.op = GET_MAXL /\ NonEmpty(isp_fps_table))
        => /\ last.ret = 0
           /\ last.out = ULongOfUInt(MaxLevelOf(isp_fps_table))

\* C20: for every configured range list, the empty one included, the table
\* that isp_cooling_table_init builds holds the max_frequency values with
\* each run of equal neighbours reduced to one entry, entry k carries
\* driver_data k, no two adjacent entries have the same fps, and the entry
\* after the last one is ISP_FPS_TABLE_END.
C20_TableCollapsesRuns ==
    (boot # "pending" /\ isp_fps_table # NULL)
        => LET d == Collapse(ect.range_list)
               t == isp_fps_table
           IN  /\ Len(t) >= Len(d) + 1
               /\ \A k \in 1..Len(d) : t[k].fps = d[k] /\ t[k].driver_data = k - 1
               /\ \A k \in 1..(Len(d) - 1) : t[k].fps # t[k + 1].fps
               /\ t[Len(d) + 1].fps = ISP_FPS_TABLE_END

C20_Witness ==
    /\ boot = "ret_ok"
    /\ ect.range_list = <<30, 30>>
    /\ isp_fps_table # NULL
    /\ isp_fps_table[1] = Entry(0, 30)
    /\ isp_fps_table[2].fps = ISP_FPS_TABLE_END

\* C12: in every state reached by register, set_cur_state and
\* get_cur_state calls, isp_state of every device is a level of the table,
\* a value in 0..maxLevel.
C12_StateWithinLevels ==
    NonEmpty(isp_fps_table)
        => \A id \in DOMAIN devs :
              devs[id].isp_state \in 0..MaxLevelOf(isp_fps_table)

\* C11: when the allocation of the device record or of the id fails,
\* register returns -ENOMEM; when any step of register fails no id stays
\* allocated, no device record stays and isp_dev_count is unchanged.
C11_RegisterFailureClean ==
    [][\A in \in RegInputs :
         Register(in) =>
            /\ (~in.dev_alloc_ok \/ ~in.idr_ok) => last'.ret = -ENOMEM
            /\ last'.ret # 0 =>
                  (isp_idr' = isp_idr /\ devs' = devs /\ isp_dev_count' = isp_dev_count)]_vars

\* C18: isp_cooling_unregister delivers no notification whatever isp_state
\* is, releases the id of the device, frees its record and decrements
\* isp_dev_count by one; with a null handle it changes nothing.
C18_UnregisterSilent ==
    [][/\ \A id \in DOMAIN devs :
            Unregister(id) =>
               /\ notified' = notified
               /\ isp_idr' = isp_idr \ {id}
               /\ DOMAIN devs' = DOMAIN devs \ {id}
               /\ \A d \in DOMAIN devs' : devs'[d] = devs[d]
               /\ isp_dev_count' = isp_dev_count - 1
       /\ UnregisterNull =>
               UNCHANGED <<isp_fps_table, isp_idr, isp_dev_count, devs, notified>>]_vars

C18_Witness ==
    /\ last.op = "unregister"
    /\ last.before = 1
    /\ notified = [n |-> 1, last |-> ULongOfUInt(1)]
    /\ devs = <<>> /\ isp_idr = {} /\ isp_dev_count = 0

\* a step that registers a cooling device
RegStep ==
    \/ \E a \in AllocInputs, in \in RegInputs : Boot(a, in)
    \/ \E in \in RegInputs : Register(in)
\* the cap for the fps f: its level, or maxLevel when it has none (0 when
\* there is no maxLevel either)
ExpectedCap(t, f) ==
    IF isp_cooling_get_level(t, f) # THERMAL_CSTATE_INVALID
        THEN isp_cooling_get_level(t, f)
    ELSE IF NonEmpty(t) THEN ULongOfUInt(MaxLevelOf(t))
    ELSE ULongOfUInt(0)
\* a cap within [0, maxLevel], 0 when there is no table
CapInRange(t, cap) ==
    /\ cap.hi = 0
    /\ cap.lo >= 0
    /\ cap.lo <= (IF NonEmpty(t) THEN MaxLevelOf(t) ELSE 0)
\* the zone "ISP" is bound and the configuration has the ISP function
CanPopulate == zone.found /\ ect.block /\ ect.function
\* with every allocation succeeding a registration succeeds, and the
\* device it adds is in state 0
RegistersAtStateZero ==
    /\ \A in \in RegInputs :
          (Register(in) /\ in.dev_alloc_ok /\ in.idr_ok /\ in.tcd_ret = 0)
              => (last'.ret = 0 /\ DOMAIN devs' # DOMAIN devs)
    /\ \A id \in DOMAIN devs' \ DOMAIN devs : devs'[id].isp_state = 0

\* C19 as claimed: registration sets the cap of every configured range i
\* that has a thermal instance to fpsToLevel(max_frequency of i), or to
\* maxLevel when that fps has no level, every cap in [0, maxLevel];
\* whatever is missing, registration succeeds with isp_state 0.
C19_CapsForEveryInstance ==
    [][RegStep =>
          /\ RegistersAtStateZero
          /\ \A id \in DOMAIN devs' \ DOMAIN devs : \A i \in zone.insts :
                (CanPopulate /\ i < Len(ect.range_list))
                    => /\ devs'[id].upper[i] =
                              ExpectedCap(isp_fps_table', ect.range_list[i + 1])
                       /\ CapInRange(isp_fps_table', devs'[id].upper[i])]_vars

\* C19 amended: registration sets the caps of the ranges in front of the
\* first range without a thermal instance, each to
\* fpsToLevel(max_frequency) or to maxLevel when that fps has no level (0
\* without a table), every cap in [0, maxLevel]; the instances from the
\* first gap on keep their caps; registration succeeds with isp_state 0.
C19_CapsUntilFirstGap ==
    [][RegStep =>
          /\ RegistersAtStateZero
          /\ \A id \in DOMAIN devs' \ DOMAIN devs : \A i \in zone.insts :
                IF CanPopulate /\ i < Len(ect.range_list)
                       /\ \A j \in 0..i : j \in zone.insts
                    THEN /\ devs'[id].upper[i] =
                                ExpectedCap(isp_fps_table', ect.range_list[i + 1])
                         /\ CapInRange(isp_fps_table', devs'[id].upper[i])
                    ELSE devs'[id].upper[i] = ULongOfUInt(0)]_vars

C19_Witness ==
    /\ zone = [found |-> TRUE, insts |-> {0, 1}]
    /\ ect.range_list = <<30, 15>>
    /\ isp_fps_table # NULL
    /\ \E id \in DOMAIN devs :
          /\ devs[id].upper[0] = ULongOfUInt(0)
          /\ devs[id].upper[1] = ULongOfUInt(1)

(* ====================== the functions side by side ==================== *)
\* no thread is inside a function of the driver
AllIdle == \A t \in Threads : thr[t].pc = "idle"

\* C13: in a set_cur_state call with a state other than the current one,
\* isp_state is written before the notifier chain is called, so an
\* observer that calls get_cur_state while it handles the notification of
\* a call that runs alone reads the state it is notified of; the chain has
\* been called when the call returns.
C13_CommitBeforeNotify ==
    (notified.n > 0 /\ observed.solo) => observed.read = notified.last

\* C15: with set_cur_state calls running side by side without a lock,
\* once every call has returned the number of notifications is the number
\* of changes of isp_state and the payload of the last notification is
\* isp_state.  (States in which a registration overwrote isp_state or a
\* call asked for a state of 2^32 or more are left to C16 and C12.)
C15_ConcurrentApplyConsistent ==
    (AllIdle /\ notified.n > 0 /\ ~observed.wide
        /\ \A h \in DOMAIN heap : heap[h].isp_state = heap[h].set_by)
        => /\ notified.n = observed.changes
           /\ \A h \in DOMAIN heap : notified.last = ULongOfUInt(heap[h].isp_state)

\* C16: from the moment the framework has the device, isp_state is 0
\* until the first set_cur_state and afterwards the state the latest
\* set_cur_state stored: registration never overwrites it; so when
\* registration has returned and one call has notified, the notified
\* state is isp_state.
C16_RegisterKeepsCommittedState ==
    /\ \A h \in DOMAIN heap :
          heap[h].cool_dev => heap[h].isp_state = heap[h].set_by
    /\ (AllIdle /\ calls.n = 1 /\ notified.n = 1 /\ ~observed.wide)
          => \A h \in DOMAIN heap : notified.last = ULongOfUInt(heap[h].isp_state)

\* the threads between the lock and the unlock of get_idr or release_idr
InIdr == {t \in Threads : thr[t].pc \in {"g_alloc", "g_unlock", "rl_remove", "rl_unlock"}}
\* the records that hold an id
Holding == {h \in DOMAIN heap : heap[h].has_id}
\* the threads that idr_alloc gave an id not yet stored in their record
Receiving == {t \in Threads : thr[t].pc = "g_unlock" /\ thr[t].ret >= 0}

\* C17: in every interleaving of registrations and unregistrations, the
\* records that hold an id hold different ids; an id that a record holds
\* or that was just handed to a thread is allocated in isp_idr, so it is
\* not handed out again before it is released; and at most one thread is
\* inside get_idr's or release_idr's critical section, holding the mutex.
C17_UniqueIdsUnderLock ==
    /\ \A h1 \in Holding, h2 \in Holding : h1 # h2 => heap[h1].id # heap[h2].id
    /\ \A h \in Holding : heap[h].id \in isp_idr
    /\ \A t \in Receiving :
          /\ thr[t].ret \in isp_idr
          /\ \A h \in Holding : heap[h].id # thr[t].ret
    /\ Cardinality(isp_idr) = Cardinality(Holding) + Cardinality(Receiving)
    /\ Cardinality(InIdr) <= 1
    /\ \A t \in InIdr : cooling_isp_lock = t

\* one thread removes an id while another waits to allocate one, next to a
\* registered device
C17_Witness ==
    \E t \in Threads, u \in Threads :
       /\ thr[t].pc = "rl_remove" /\ thr[t].op = "unregister"
       /\ thr[u].pc = "g_lock"
       /\ cooling_isp_lock = t
       /\ Cardinality(Holding) = 1

====
